---- MODULE Spec2Model ----
(***************************************************************************)
(* Model of the video download backend: the format normalizer              *)
(* (VideoProcessor._process_formats and its helpers), the quality          *)
(* resolver and the staging of downloads (VideoProcessor.download_video),  *)
(* the preview description (VideoProcessor.get_video_info) and the request *)
(* handlers of app.py.                                                     *)
(***************************************************************************)
EXTENDS Integers, Sequences, FiniteSets, TLC

(***************************************************************************)
(* Bounds of the model.                                                    *)
(***************************************************************************)
\* longest raw format list handed to _process_formats
MaxFormats == 3

\* largest height handed to _create_quality_label
MaxHeight == 8640

\* longest description returned by the extraction engine
MaxDescLen == 204

\* requests the clients send
NumRequests == 3

\* server processes (each with one event loop) sharing the downloads directory
NumWorkers == 2

VARIABLES
    formats,        \* _process_formats: the raw format list (argument)
    processed,      \* _process_formats: the returned list, <<>> before the call
    npc,            \* "input" before _process_formats ran, "done" after
    labelArgs,      \* _create_quality_label: [height, width, fps]
    labelResult,    \* _create_quality_label: <<>> before the call, <<label>> after
    dlArgs,         \* download_video: [quality, format_id]
    ydlFormat,      \* download_video: <<>>, then <<ydl_opts['format']>>
    info,           \* get_video_info: the engine's info dictionary
    descResult,     \* get_video_info: <<>>, then <<the 'description' returned>>
    req,            \* per request: <<>> before it is sent, then [kind, body]
    pc,             \* per request: where its handler stands
    worker,         \* per request: the process that runs its handler (0: none)
    loop,           \* per process: the request whose coroutine holds the event loop (0: idle)
    tmp,            \* per request: its temporary directory: "none", "empty", "partial", "complete"
    title,          \* per request: the file name the engine writes ("" before)
    serving,        \* downloads directory: per file name <<>> (absent) or <<writer, complete>>
    resp            \* per request: <<>>, then the HTTP response

nvars == <<formats, processed, npc>>

lvars == <<labelArgs, labelResult>>

rvars == <<dlArgs, ydlFormat>>

dvars == <<info, descResult>>

svars == <<req, pc, worker, loop, tmp, title, serving, resp>>

vars == <<formats, processed, npc, labelArgs, labelResult, dlArgs, ydlFormat,
          info, descResult, req, pc, worker, loop, tmp, title, serving, resp>>

\* Optional[str]: None is <<>>, a string s is <<s>>
None == <<>>

Some(s) == <<s>>

(***************************************************************************)
(* Python dictionaries: a raw format is a function whose DOMAIN is the set *)
(* of keys present.  Get is dict.get(key, default).  A key that is present *)
(* holds a value of its annotated type (str, int).                         *)
(***************************************************************************)
Has(d, k) == k \in DOMAIN d

Get(d, k, default) == IF k \in DOMAIN d THEN d[k] ELSE default

(***************************************************************************)
(* Program constants.                                                      *)
(***************************************************************************)
\* get_video_info: the description is cut to this many characters
DescLimit == 200

\* _create_quality_label with the 2160 breakpoint exclusive
CreateQualityLabelStrict(height, width, fps) ==
    IF height >= 4320 THEN ToString(height \div 1000) \o "K"
    ELSE IF height > 2160 THEN "4K"
    ELSE IF height >= 1440 THEN "2K"
    ELSE IF height >= 1080 THEN "1080p"
    ELSE IF height >= 720 THEN "720p"
    ELSE IF height >= 480 THEN "480p"
    ELSE IF height >= 360 THEN "360p"
    ELSE IF height >= 240 THEN "240p"
    ELSE IF height >= 144 THEN "144p"
    ELSE ToString(height) \o "p"

(***************************************************************************)
(* _create_quality_label(height, width, fps)                               *)
(***************************************************************************)
CreateQualityLabel(height, width, fps) ==
    IF height >= 4320 THEN ToString(height \div 1000) \o "K"
    ELSE IF height >= 2160 THEN "4K"
    ELSE IF height >= 1440 THEN "2K"
    ELSE IF height >= 1080 THEN "1080p"
    ELSE IF height >= 720 THEN "720p"
    ELSE IF height >= 480 THEN "480p"
    ELSE IF height >= 360 THEN "360p"
    ELSE IF height >= 240 THEN "240p"
    ELSE IF height >= 144 THEN "144p"
    ELSE ToString(height) \o "p"

(***************************************************************************)
(* _format_filesize(bytes_size).  The value after k divisions by 1024.0 is *)
(* the rational bytes / 1024^k (exact in binary floating point); "%.1f"    *)
(* rounds it to one fractional digit, ties to even.                        *)
(***************************************************************************)
OneDecimal(num, den) ==
    LET q == (num * 10) \div den
        r == (num * 10) % den
        t == IF 2 * r > den \/ (2 * r = den /\ q % 2 = 1) THEN q + 1 ELSE q
    IN  ToString(t \div 10) \o "." \o ToString(t % 10)

SizeUnits == <<"B", "KB", "MB", "GB">>

RECURSIVE FormatFilesizeFrom(_, _, _)
FormatFilesizeFrom(bytes_size, den, i) ==
    IF i > Len(SizeUnits) THEN OneDecimal(bytes_size, den) \o " TB"
    ELSE IF bytes_size < 1024 * den
         THEN OneDecimal(bytes_size, den) \o " " \o SizeUnits[i]
         ELSE FormatFilesizeFrom(bytes_size, den * 1024, i + 1)

FormatFilesize(bytes_size) ==
    IF bytes_size = 0 THEN "Unknown" ELSE FormatFilesizeFrom(bytes_size, 1, 1)

(***************************************************************************)
(* _process_formats(formats)                                               *)
(***************************************************************************)
\* the availability test without the size check
UnavailableNoSizeCheck(fmt) ==
    \/ ~Has(fmt, "url")
    \/ fmt["url"] = ""

\* line 81: `if not fmt.get('url') or fmt.get('filesize') == 0: continue`
Unavailable(fmt) ==
    \/ ~Has(fmt, "url")
    \/ fmt["url"] = ""
    \/ (Has(fmt, "filesize") /\ fmt["filesize"] = 0)

\* line 92: `if vcodec == 'none': continue`, vcodec = fmt.get('vcodec', 'none')
AudioOnly(fmt) == Get(fmt, "vcodec", "none") = "none"

\* line 96: the label of a raw format
LabelOf(fmt) ==
    CreateQualityLabel(Get(fmt, "height", 0), Get(fmt, "width", 0), Get(fmt, "fps", 0))

\* lines 105-107: exact size, else the approximate one
FilesizeOf(fmt) ==
    IF Get(fmt, "filesize", 0) # 0 THEN fmt["filesize"]
    ELSE Get(fmt, "filesize_approx", 0)

\* lines 109-121: the dictionary appended for a surviving raw format
Entry(fmt) ==
    [ format_id          |-> Get(fmt, "format_id", ""),
      quality            |-> LabelOf(fmt),
      height             |-> Get(fmt, "height", 0),
      width              |-> Get(fmt, "width", 0),
      fps                |-> Get(fmt, "fps", 0),
      filesize           |-> FilesizeOf(fmt),
      filesize_formatted |-> FormatFilesize(FilesizeOf(fmt)),
      vcodec             |-> Get(fmt, "vcodec", "none"),
      acodec             |-> Get(fmt, "acodec", "none"),
      url                |-> Get(fmt, "url", ""),
      ext                |-> Get(fmt, "ext", "mp4") ]

\* the loop with a later format of a label replacing the earlier one
RECURSIVE FilterFormatsLastWins(_, _, _, _)
FilterFormatsLastWins(fmts, i, processed_formats, seen_qualities) ==
    IF i > Len(fmts) THEN processed_formats
    ELSE LET fmt == fmts[i] IN
         IF Unavailable(fmt) \/ AudioOnly(fmt) THEN
             FilterFormatsLastWins(fmts, i + 1, processed_formats, seen_qualities)
         ELSE IF LabelOf(fmt) \in seen_qualities THEN
             FilterFormatsLastWins(fmts, i + 1,
                 [k \in 1..Len(processed_formats) |->
                     IF processed_formats[k].quality = LabelOf(fmt)
                     THEN Entry(fmt) ELSE processed_formats[k]],
                 seen_qualities)
         ELSE
             FilterFormatsLastWins(fmts, i + 1, Append(processed_formats, Entry(fmt)),
                                   seen_qualities \cup {LabelOf(fmt)})

\* lines 80-121: the loop, from raw format i on, with the list and the set
\* of labels built so far
RECURSIVE FilterFormats(_, _, _, _)
FilterFormats(fmts, i, processed_formats, seen_qualities) ==
    IF i > Len(fmts) THEN processed_formats
    ELSE LET fmt == fmts[i] IN
         IF Unavailable(fmt) THEN
             FilterFormats(fmts, i + 1, processed_formats, seen_qualities)
         ELSE IF AudioOnly(fmt) THEN
             FilterFormats(fmts, i + 1, processed_formats, seen_qualities)
         ELSE IF LabelOf(fmt) \in seen_qualities THEN
             FilterFormats(fmts, i + 1, processed_formats, seen_qualities)
         ELSE
             FilterFormats(fmts, i + 1, Append(processed_formats, Entry(fmt)),
                           seen_qualities \cup {LabelOf(fmt)})

\* the list left in input order
SortByHeightDescUnsorted(s) == s

\* line 124: list.sort(key=height, reverse=True); the sort is stable, so
\* entries of equal height keep their order.  Insertion of e behind every
\* entry at least as tall.
RECURSIVE InsertByHeight(_, _)
InsertByHeight(sorted, e) ==
    IF sorted = <<>> THEN <<e>>
    ELSE IF Head(sorted).height >= e.height
         THEN <<Head(sorted)>> \o InsertByHeight(Tail(sorted), e)
         ELSE <<e>> \o sorted

RECURSIVE SortByHeightDesc(_)
SortByHeightDesc(s) ==
    IF s = <<>> THEN <<>>
    ELSE InsertByHeight(SortByHeightDesc(SubSeq(s, 1, Len(s) - 1)), s[Len(s)])

\* the synthetic entry copied from the last sorted entry
AddHighestFromLast(sorted) ==
    IF sorted # <<>>
    THEN <<[sorted[Len(sorted)] EXCEPT !.quality = "Highest Available",
                                       !.format_id = "best"]>> \o sorted
    ELSE sorted

\* lines 127-131: the synthetic entry, a copy of the first sorted entry
AddHighest(sorted) ==
    IF sorted # <<>>
    THEN <<[sorted[1] EXCEPT !.quality = "Highest Available", !.format_id = "best"]>> \o sorted
    ELSE sorted

ProcessFormats(fmts) ==
    AddHighest(SortByHeightDesc(FilterFormats(fmts, 1, <<>>, {})))

(***************************************************************************)
(* download_video, lines 231-238: the format expression put into           *)
(* ydl_opts['format'] for a quality label and an Optional format id.       *)
(***************************************************************************)
CombinedBest == "bestvideo[ext=mp4]+bestaudio[ext=m4a]/best[ext=mp4]/best"

FallbackBest == "best[ext=mp4]/best"

\* truth value of an Optional[str]: None and "" are false
Truthy(opt) == opt # None /\ opt[1] # ""

\* the selection with the identifier tested before the label
FormatSelectorIdFirst(quality, format_id) ==
    IF Truthy(format_id) /\ format_id # Some("best") THEN format_id[1]
    ELSE IF quality = "Highest Available" \/ format_id = Some("best") THEN CombinedBest
    ELSE FallbackBest

FormatSelector(quality, format_id) ==
    IF quality = "Highest Available" \/ format_id = Some("best") THEN CombinedBest
    ELSE IF Truthy(format_id) THEN format_id[1]
    ELSE FallbackBest

(***************************************************************************)
(* get_video_info, line 60: the 'description' of the preview               *)
(*   info.get('description', '')[:200] + '...'                             *)
(*       if info.get('description', '') else ''                            *)
(***************************************************************************)
Min(a, b) == IF a <= b THEN a ELSE b

\* s[:n]
Prefix(s, n) == SubSeq(s, 1, Min(n, Len(s)))

PreviewDescription(inf) ==
    IF Get(inf, "description", "") # ""
    THEN Prefix(Get(inf, "description", ""), DescLimit) \o "..."
    ELSE ""

(***************************************************************************)
(* The raw formats the extraction engine may emit: a video-only and a      *)
(* muxed format, formats sharing a label, formats without locator, size,   *)
(* height or codec, and audio-only formats.                                *)
(***************************************************************************)
RawPool ==
    { [format_id |-> "137", url |-> "u137", height |-> 1080, width |-> 1920, fps |-> 30,
       vcodec |-> "avc1", acodec |-> "none", filesize |-> 100, ext |-> "mp4"],
      [format_id |-> "248", url |-> "u248", height |-> 1080, width |-> 1920, fps |-> 60,
       vcodec |-> "vp9", acodec |-> "none", filesize |-> 500, ext |-> "webm"],
      [format_id |-> "399", url |-> "u399", height |-> 1100, width |-> 1920, fps |-> 30,
       vcodec |-> "av01", filesize_approx |-> 300],
      [format_id |-> "22", url |-> "u22", height |-> 720, width |-> 1280, fps |-> 30,
       vcodec |-> "avc1", acodec |-> "mp4a", ext |-> "mp4"],
      [format_id |-> "313", url |-> "u313", height |-> 2160, width |-> 3840, fps |-> 30,
       vcodec |-> "vp9", acodec |-> "none", filesize |-> 1536, ext |-> "webm"],
      [format_id |-> "571", url |-> "u571", height |-> 4320, width |-> 7680, fps |-> 60,
       vcodec |-> "av01", acodec |-> "none", filesize |-> 1572864, ext |-> "mp4"],
      [format_id |-> "sb", url |-> "usb", vcodec |-> "avc1", filesize |-> 100],
      [format_id |-> "160", url |-> "u160", height |-> 100, width |-> 176, fps |-> 15,
       vcodec |-> "avc1", acodec |-> "none", filesize |-> 1023, ext |-> "mp4"],
      [format_id |-> "140", url |-> "u140", vcodec |-> "none", acodec |-> "mp4a",
       filesize |-> 100, ext |-> "m4a"],
      [format_id |-> "141", url |-> "u141", height |-> 1080, acodec |-> "mp4a",
       filesize |-> 100, ext |-> "m4a"],
      [format_id |-> "18", height |-> 1080, width |-> 1920, fps |-> 30,
       vcodec |-> "avc1", acodec |-> "mp4a", filesize |-> 100, ext |-> "mp4"],
      [format_id |-> "19", url |-> "", height |-> 720, width |-> 1280, fps |-> 30,
       vcodec |-> "avc1", acodec |-> "mp4a", filesize |-> 100, ext |-> "mp4"],
      [format_id |-> "400", url |-> "u400", height |-> 1080, width |-> 1920, fps |-> 30,
       vcodec |-> "vp9", acodec |-> "none", filesize |-> 0, filesize_approx |-> 300,
       ext |-> "webm"] }

RawLists == UNION {[1..n -> RawPool] : n \in 0..MaxFormats}

(***************************************************************************)
(* The normalizer applied to one raw format list.                          *)
(***************************************************************************)
\* the variables of a part of the program that a specification leaves out
NormalizerOff == formats = <<>> /\ processed = <<>> /\ npc = "off"

LabelOff == labelArgs = <<>> /\ labelResult = <<>>

ResolverOff == dlArgs = <<>> /\ ydlFormat = <<>>

DescriptionOff == info = <<>> /\ descResult = <<>>

ServiceOff ==
    /\ req = <<>> /\ pc = <<>> /\ worker = <<>> /\ loop = <<>>
    /\ tmp = <<>> /\ title = <<>> /\ serving = <<>> /\ resp = <<>>

InitNormalizer ==
    /\ formats \in RawLists
    /\ processed = <<>>
    /\ npc = "input"
    /\ LabelOff /\ ResolverOff /\ DescriptionOff /\ ServiceOff

Normalize ==
    /\ npc = "input"
    /\ processed' = ProcessFormats(formats)
    /\ npc' = "done"
    /\ UNCHANGED <<formats, lvars, rvars, dvars, svars>>

NextNormalizer == Normalize

SpecNormalizer == InitNormalizer /\ [][NextNormalizer]_vars

(***************************************************************************)
(* _create_quality_label applied to one (height, width, fps).              *)
(***************************************************************************)
InitLabel ==
    /\ labelArgs \in [height : 0..MaxHeight, width : {0, 1920}, fps : {0, 60}]
    /\ labelResult = <<>>
    /\ NormalizerOff /\ ResolverOff /\ DescriptionOff /\ ServiceOff

Label ==
    /\ labelArgs # <<>>
    /\ labelResult = <<>>
    /\ labelResult' = <<CreateQualityLabel(labelArgs.height, labelArgs.width, labelArgs.fps)>>
    /\ UNCHANGED <<labelArgs, nvars, rvars, dvars, svars>>

NextLabel == Label

SpecLabel == InitLabel /\ [][NextLabel]_vars

(***************************************************************************)
(* The format selection of download_video for one (quality, format_id).    *)
(***************************************************************************)
Qualities == {"Highest Available", "highest available", "best", "4K", "1080p", "720p", ""}

FormatIds == {None} \cup {Some(s) : s \in {"", "best", "Best", "137", "22", "18", "bestvideo"}}

InitResolver ==
    /\ dlArgs \in [quality : Qualities, format_id : FormatIds]
    /\ ydlFormat = <<>>
    /\ NormalizerOff /\ LabelOff /\ DescriptionOff /\ ServiceOff

Resolve ==
    /\ dlArgs # <<>>
    /\ ydlFormat = <<>>
    /\ ydlFormat' = <<FormatSelector(dlArgs.quality, dlArgs.format_id)>>
    /\ UNCHANGED <<dlArgs, nvars, lvars, dvars, svars>>

NextResolver == Resolve

SpecResolver == InitResolver /\ [][NextResolver]_vars

(***************************************************************************)
(* The description of get_video_info for one info dictionary.              *)
(***************************************************************************)
RECURSIVE Text(_)
Text(n) ==
    IF n = 0 THEN ""
    ELSE IF n % 2 = 0 THEN Text(n \div 2) \o Text(n \div 2)
    ELSE Text(n - 1) \o "d"

Infos == {[title |-> "t"]} \cup {[title |-> "t", description |-> Text(n)] : n \in 0..MaxDescLen}

InitDescription ==
    /\ info \in Infos
    /\ descResult = <<>>
    /\ NormalizerOff /\ LabelOff /\ ResolverOff /\ ServiceOff

Describe ==
    /\ info # <<>>
    /\ descResult = <<>>
    /\ descResult' = <<PreviewDescription(info)>>
    /\ UNCHANGED <<info, nvars, lvars, rvars, svars>>

NextDescription == Describe

SpecDescription == InitDescription /\ [][NextDescription]_vars

(***************************************************************************)
(* The request service of app.py.  A server process runs the handlers as   *)
(* coroutines on one event loop; a coroutine holds the loop until it       *)
(* returns or suspends at an await.  `uvicorn.run(app, ...)` starts one    *)
(* process; a deployment may start several on the same downloads           *)
(* directory.                                                              *)
(***************************************************************************)
Requests == 1..NumRequests

\* file names the engine derives from '%(title)s.%(ext)s'
Filenames == {"a.mp4", "b.mp4"}

\* `sub in s`
Contains(s, sub) ==
    \E i \in 1..(Len(s) - Len(sub) + 1) : SubSeq(s, i, i + Len(sub) - 1) = sub

\* `not request.url or "youtube.com" not in request.url and "youtu.be" not in request.url`
InvalidUrl(url) ==
    url = "" \/ (~Contains(url, "youtube.com") /\ ~Contains(url, "youtu.be"))

\* request bodies: JSON objects, a key may be missing
PreviewBodies ==
    { [other |-> "x"],
      [url |-> "not-a-url"],
      [url |-> "https://youtu.be/v"] }

DownloadBodies ==
    { [url |-> "https://youtu.be/v"],
      [url |-> "not-a-url", quality |-> "720p"],
      [url |-> "https://www.youtube.com/watch?v=v", quality |-> ""],
      [url |-> "https://youtu.be/v", quality |-> "720p", format_id |-> "22"] }

\* the body parses into VideoPreviewRequest (url: str)
PreviewBodyOk(body) == Has(body, "url")

\* the body parses into VideoDownloadRequest (url: str, quality: str,
\* format_id: Optional[str] = None)
DownloadBodyOk(body) == Has(body, "url") /\ Has(body, "quality")

\* str(e) of an HTTPException, as `detail=str(e)` receives it
\* ("<status_code>: <detail>")
StrHTTPException(status_code, detail) == ToString(status_code) \o ": " \o detail

Response(status, detail, download_url, content) ==
    [status |-> status, detail |-> detail, download_url |-> download_url,
     content |-> content]

\* the response a body rejected by the request model gets, before any handler runs
Unprocessable == Response(422, "Field required", "", "")

\* `raise HTTPException(status_code=400, detail=...)` inside the handler's
\* try block, caught by its `except Exception` and raised again
BadRequest(detail) == Response(400, StrHTTPException(400, detail), "", "")

\* an exception of the processor reaching the handler's `except Exception`
Failed(message) == Response(400, message, "", "")

ServiceInit(processes) ==
    /\ req = [r \in Requests |-> <<>>]
    /\ pc = [r \in Requests |-> "new"]
    /\ worker = [r \in Requests |-> 0]
    /\ loop = [w \in 1..processes |-> 0]
   
    /\ tmp = [r \in Requests |-> "none"]
    /\ title = [r \in Requests |-> ""]
    /\ serving = [f \in Filenames |-> <<>>]
    /\ resp = [r \in Requests |-> <<>>]
    /\ NormalizerOff /\ LabelOff /\ ResolverOff /\ DescriptionOff

\* one process, as started by `uvicorn.run(app, host="0.0.0.0", port=8000)`
Init == ServiceInit(1)

\* NumWorkers processes (a process may stay without request)
InitWorkers == ServiceInit(NumWorkers)

\* request r reaches process w, whose event loop is free to accept it;
\* requests are numbered in the order of their arrival
Accepts(r, w) ==
    /\ pc[r] = "new"
    /\ IF r = 1 THEN TRUE ELSE pc[r - 1] # "new"
    /\ w \in DOMAIN loop
    /\ loop[w] = 0

\* the response of request r is sent and its coroutine ends
Finish(r, response) ==
    /\ pc' = [pc EXCEPT ![r] = "done"]
    /\ resp' = [resp EXCEPT ![r] = response]
    /\ loop' = [w \in DOMAIN loop |-> IF loop[w] = r THEN 0 ELSE loop[w]]
    /\ worker' = [worker EXCEPT ![r] = 0]

\* the handler of request r goes on, holding the event loop of process w
Hold(r, w, at) ==
    /\ pc' = [pc EXCEPT ![r] = at]
    /\ loop' = [loop EXCEPT ![w] = r]
    /\ worker' = [worker EXCEPT ![r] = w]
    /\ UNCHANGED resp

\* POST /preview: get_video_preview up to the call of get_video_info
ReceivePreview(r, w) ==
    /\ Accepts(r, w)
    /\ \E body \in PreviewBodies :
        /\ req' = [req EXCEPT ![r] = [kind |-> "preview", body |-> body]]
        /\ IF ~PreviewBodyOk(body) THEN Finish(r, Unprocessable)
           ELSE IF InvalidUrl(body["url"]) THEN Finish(r, BadRequest("Invalid YouTube URL"))
           ELSE Hold(r, w, "extracting")
    /\ UNCHANGED <<tmp, title, serving, nvars, lvars, rvars, dvars>>

\* get_video_info returns and the handler answers
PreviewDone(r) ==
    /\ pc[r] = "extracting"
    /\ Finish(r, Response(200, "", "", ""))
    /\ UNCHANGED <<req, tmp, title, serving, nvars, lvars, rvars, dvars>>

\* get_video_info raises (the engine's extract_info or the normalizer)
PreviewFail(r) ==
    /\ pc[r] = "extracting"
    /\ Finish(r, Failed("Error extracting video info: engine error"))
    /\ UNCHANGED <<req, tmp, title, serving, nvars, lvars, rvars, dvars>>

\* POST /download: download_video(request, background_tasks) up to the
\* engine call of VideoProcessor.download_video: validation, the temporary
\* directory, ydl_opts
ReceiveDownload(r, w) ==
    /\ Accepts(r, w)
    /\ \E body \in DownloadBodies :
        /\ req' = [req EXCEPT ![r] = [kind |-> "download", body |-> body]]
        /\ IF ~DownloadBodyOk(body) THEN
               Finish(r, Unprocessable) /\ UNCHANGED tmp
           ELSE IF InvalidUrl(body["url"]) THEN
               Finish(r, BadRequest("Invalid YouTube URL")) /\ UNCHANGED tmp
           ELSE IF body["quality"] = "" THEN
               Finish(r, BadRequest("Quality selection required")) /\ UNCHANGED tmp
           ELSE
               Hold(r, w, "engine") /\ tmp' = [tmp EXCEPT ![r] = "empty"]
    /\ UNCHANGED <<title, serving, nvars, lvars, rvars, dvars>>

\* ydl.extract_info(url, download=True) starts writing '%(title)s.%(ext)s'
\* in temp_dir
EngineStart(r) ==
    /\ pc[r] = "engine"
    /\ \E name \in Filenames : title' = [title EXCEPT ![r] = name]
    /\ tmp' = [tmp EXCEPT ![r] = "partial"]
    /\ pc' = [pc EXCEPT ![r] = "downloading"]
    /\ UNCHANGED <<req, worker, loop, serving, resp, nvars, lvars, rvars, dvars>>

\* ydl.extract_info(url, download=True) returns: the file is written
EngineFinish(r) ==
    /\ pc[r] = "downloading"
    /\ tmp' = [tmp EXCEPT ![r] = "complete"]
    /\ pc' = [pc EXCEPT ![r] = "downloaded"]
    /\ UNCHANGED <<req, worker, loop, title, serving, resp, nvars, lvars, rvars, dvars>>

\* ydl.extract_info raises; the temporary directory is removed
EngineFail(r) ==
    /\ pc[r] \in {"engine", "downloading"}
    /\ tmp' = [tmp EXCEPT ![r] = "none"]
    /\ title' = [title EXCEPT ![r] = ""]
    /\ Finish(r, Failed("Error downloading video: engine error"))
    /\ UNCHANGED <<req, serving, nvars, lvars, rvars, dvars>>

\* the move done as a copy: the file appears in the downloads directory
\* before it is complete
MoveFileByCopy(r) ==
    /\ pc[r] = "downloaded"
    /\ serving' = [serving EXCEPT ![title[r]] = <<r, FALSE>>]
    /\ pc' = [pc EXCEPT ![r] = "moved"]
    /\ UNCHANGED <<req, worker, loop, tmp, title, resp, nvars, lvars, rvars, dvars>>

\* os.path.exists(filename) holds and os.rename(filename, final_path)
\* puts the file into the downloads directory in one step, replacing a
\* file of the same name
MoveFile(r) ==
    /\ pc[r] = "downloaded"
    /\ serving' = [serving EXCEPT ![title[r]] = <<r, TRUE>>]
    /\ tmp' = [tmp EXCEPT ![r] = "empty"]
    /\ pc' = [pc EXCEPT ![r] = "moved"]
    /\ UNCHANGED <<req, worker, loop, title, resp, nvars, lvars, rvars, dvars>>

\* os.path.exists(filename) is false (the engine wrote another name than
\* prepare_filename gives), or os.rename raises (the temporary directory
\* is on another file system)
MoveErrors == {"Download failed - file not found", "[Errno 18] Invalid cross-device link"}

MoveFail(r) ==
    /\ pc[r] = "downloaded"
    /\ tmp' = [tmp EXCEPT ![r] = "none"]
    /\ title' = [title EXCEPT ![r] = ""]
    /\ \E e \in MoveErrors : Finish(r, Failed("Error downloading video: " \o e))
    /\ UNCHANGED <<req, serving, nvars, lvars, rvars, dvars>>

\* download_video returns (final_path, filename); the handler answers
DownloadDone(r) ==
    /\ pc[r] = "moved"
    /\ tmp' = [tmp EXCEPT ![r] = "none"]
    /\ Finish(r, Response(200, "Video downloaded successfully",
                          "/downloads/" \o title[r], ""))
    /\ UNCHANGED <<req, title, serving, nvars, lvars, rvars, dvars>>

\* GET /downloads/{filename}: serve_download returns the FileResponse or 404
ReceiveServe(r, w) ==
    /\ Accepts(r, w)
    /\ \E name \in Filenames :
        /\ req' = [req EXCEPT ![r] = [kind |-> "serve", body |-> [filename |-> name]]]
        /\ IF serving[name] = <<>>
           THEN Finish(r, Response(404, "File not found", "", ""))
           ELSE /\ pc' = [pc EXCEPT ![r] = "sending"]
                /\ worker' = [worker EXCEPT ![r] = w]
                /\ UNCHANGED <<loop, resp>>
    /\ UNCHANGED <<tmp, title, serving, nvars, lvars, rvars, dvars>>

\* the FileResponse reads the file and sends it, once the event loop runs it
ServeSend(r) ==
    /\ pc[r] = "sending"
    /\ loop[worker[r]] = 0
    /\ Finish(r, Response(200, "", "",
                          IF serving[req[r].body["filename"]][2] THEN "complete" ELSE "partial"))
    /\ UNCHANGED <<req, tmp, title, serving, nvars, lvars, rvars, dvars>>

\* GET /health
ReceiveHealth(r, w) ==
    /\ Accepts(r, w)
    /\ req' = [req EXCEPT ![r] = [kind |-> "health", body |-> <<>>]]
    /\ Finish(r, Response(200, "healthy", "", ""))
    /\ UNCHANGED <<tmp, title, serving, nvars, lvars, rvars, dvars>>

Next ==
    \E r \in Requests :
        \/ \E w \in 1..NumWorkers : ReceiveDownload(r, w)
        \/ EngineStart(r)
        \/ EngineFinish(r)
        \/ EngineFail(r)
        \/ MoveFile(r)
        \/ MoveFail(r)
        \/ DownloadDone(r)
        \/ \E w \in 1..NumWorkers : ReceivePreview(r, w)
        \/ PreviewDone(r)
        \/ PreviewFail(r)
        \/ \E w \in 1..NumWorkers : ReceiveServe(r, w)
        \/ ServeSend(r)
        \/ \E w \in 1..NumWorkers : ReceiveHealth(r, w)

Spec == Init /\ [][Next]_vars

SpecWorkers == InitWorkers /\ [][Next]_vars

(***************************************************************************)
(* Properties of the normalizer.                                           *)
(***************************************************************************)
\* the output without the synthetic entry
RealEntries == SelectSeq(processed, LAMBDA e : e.quality # "Highest Available")

\* a raw format the normalizer has to discard: no locator, an exact size
\* of 0, or no video codec
Discarded(fmt) ==
    \/ "url" \notin DOMAIN fmt
    \/ fmt["url"] = ""
    \/ ("filesize" \in DOMAIN fmt /\ fmt["filesize"] = 0)
    \/ "vcodec" \notin DOMAIN fmt
    \/ fmt["vcodec"] = "none"

\* the raw formats that pass the filter and carry the given label
Producers(label) ==
    {i \in 1..Len(formats) : ~Discarded(formats[i]) /\ LabelOf(formats[i]) = label}

FirstProducer(label) ==
    CHOOSE i \in Producers(label) : \A j \in Producers(label) : i <= j

SurvivingLabels == {LabelOf(formats[i]) : i \in {k \in 1..Len(formats) : ~Discarded(formats[k])}}

\* C1: ignoring the synthetic "Highest Available" entry, the output of
\* _process_formats is sorted by height in descending order and no two of
\* its entries have the same quality label.
C1_SortedByHeightUniqueLabels ==
    npc = "done" =>
        \A i, j \in 1..Len(RealEntries) :
            i < j => /\ RealEntries[i].height >= RealEntries[j].height
                     /\ RealEntries[i].quality # RealEntries[j].quality

\* the sort had work to do: a shorter format came first in the input, two
\* inputs shared a label, and three labels survive
C1_Witness ==
    /\ npc = "done"
    /\ Len(RealEntries) >= 3
    /\ \E i, j \in 1..Len(formats) :
           /\ i < j
           /\ ~Discarded(formats[i]) /\ ~Discarded(formats[j])
           /\ Get(formats[i], "height", 0) < Get(formats[j], "height", 0)
    /\ RealEntries[1].format_id # formats[1]["format_id"]

\* C2: when a format survives, entry 1 is labelled "Highest Available" with
\* format id "best" and agrees in every other field with entry 2, the
\* tallest surviving entry; when none survives the output is empty.
C2_HighestAvailableFirst ==
    npc = "done" =>
        IF SurvivingLabels # {}
        THEN /\ Len(processed) >= 2
             /\ processed[1].quality = "Highest Available"
             /\ processed[1].format_id = "best"
             /\ \A k \in DOMAIN processed[1] \ {"quality", "format_id"} :
                    processed[1][k] = processed[2][k]
             /\ \A i \in 2..Len(processed) : processed[2].height >= processed[i].height
             /\ \A i \in 2..Len(processed) : processed[i].quality # "Highest Available"
        ELSE processed = <<>>

\* several formats survived and the tallest was not the first in the input
C2_Witness ==
    /\ npc = "done"
    /\ Len(processed) >= 3
    /\ processed[1].quality = "Highest Available"
    /\ processed[2].format_id # formats[1]["format_id"]
    /\ processed[2].height > processed[3].height

\* nothing survived a non-empty input
C2_WitnessEmpty ==
    npc = "done" /\ Len(formats) >= 2 /\ processed = <<>>

\* C3: for every label, exactly one non-synthetic output entry carries it,
\* and it is built from the first raw format in input order that passes the
\* filter and produces that label; later formats of the label are dropped
\* whatever their size, height or codec (sizes 100 then 500 under "1080p"
\* give one "1080p" entry of size 100).
C3_FirstWins ==
    npc = "done" =>
        /\ \A label \in SurvivingLabels :
               \E i \in 1..Len(RealEntries) :
                   /\ RealEntries[i].quality = label
                   /\ \A j \in 1..Len(RealEntries) : RealEntries[j].quality = label => j = i
                   /\ LET fmt == formats[FirstProducer(label)] IN
                          /\ RealEntries[i].format_id = fmt["format_id"]
                          /\ RealEntries[i].url = fmt["url"]
                          /\ RealEntries[i].height = Get(fmt, "height", 0)
                          /\ RealEntries[i].vcodec = fmt["vcodec"]
                          /\ RealEntries[i].filesize =
                                 IF "filesize" \in DOMAIN fmt THEN fmt["filesize"]
                                 ELSE IF "filesize_approx" \in DOMAIN fmt
                                      THEN fmt["filesize_approx"] ELSE 0
        /\ \A i \in 1..Len(RealEntries) : RealEntries[i].quality \in SurvivingLabels
        /\ (Len(formats) >= 2 /\ formats[1]["format_id"] = "137"
                /\ formats[2]["format_id"] = "248")
           => \E i \in 1..Len(RealEntries) :
                  /\ RealEntries[i].quality = "1080p"
                  /\ RealEntries[i].filesize = 100

\* a later format of the same label was larger, taller and of another
\* codec than the first, and was dropped
C3_Witness ==
    /\ npc = "done"
    /\ \E i, j \in Producers("1080p") :
           /\ i < j
           /\ i = FirstProducer("1080p")
           /\ FilesizeOf(formats[j]) > FilesizeOf(formats[i])
           /\ formats[j]["vcodec"] # formats[i]["vcodec"]
    /\ \E i, j \in Producers("1080p") :
           /\ i = FirstProducer("1080p")
           /\ formats[j]["height"] > formats[i]["height"]
    /\ \E i \in 1..Len(RealEntries) : RealEntries[i].quality = "1080p"

\* C4: a raw format without locator, with a size of exactly 0 or without
\* video codec contributes no entry, and it does not reserve its label: the
\* first eligible format of that label after it still appears.
C4_DiscardedNeverAppear ==
    npc = "done" =>
        /\ \A i \in 1..Len(formats) :
               Discarded(formats[i]) =>
                   \A k \in 1..Len(processed) :
                       processed[k].format_id # formats[i]["format_id"]
        /\ \A i, j \in 1..Len(formats) :
               ( /\ i < j
                 /\ Discarded(formats[i])
                 /\ LabelOf(formats[i]) = LabelOf(formats[j])
                 /\ j \in Producers(LabelOf(formats[j]))
                 /\ j = FirstProducer(LabelOf(formats[j])) )
               => \E k \in 1..Len(RealEntries) :
                      RealEntries[k].format_id = formats[j]["format_id"]

\* a format of size 0 and a format without locator came before an eligible
\* format of the same label, which appears
C4_Witness ==
    /\ npc = "done"
    /\ Len(formats) = 3
    /\ formats[1]["format_id"] = "400"
    /\ formats[2]["format_id"] = "18"
    /\ formats[3]["format_id"] = "248"
    /\ \E k \in 1..Len(RealEntries) : RealEntries[k].format_id = "248"

(***************************************************************************)
(* Properties of the quality label.                                        *)
(***************************************************************************)
Breakpoints == {2160, 1440, 1080, 720, 480, 360, 240, 144}

BreakpointLabel(b) ==
    IF b = 2160 THEN "4K" ELSE IF b = 1440 THEN "2K" ELSE ToString(b) \o "p"

\* the label of the first breakpoint h meets or exceeds, scanning from the highest
ExpectedLabel(h) ==
    IF h >= 4320
    THEN ToString(CHOOSE k \in 0..h : 1000 * k <= h /\ h < 1000 * (k + 1)) \o "K"
    ELSE LET met == {b \in Breakpoints : h >= b} IN
         IF met # {}
         THEN BreakpointLabel(CHOOSE b \in met : \A c \in met : c <= b)
         ELSE ToString(h) \o "p"

Supplied(format_id) == format_id # <<>> /\ format_id # <<"">>

\* C6: the expression handed to the engine follows the first matching rule:
\* (1) label "Highest Available" or identifier "best": the combined
\* best-video+best-audio expression, also when another identifier is
\* supplied; (2) else a supplied identifier verbatim; (3) else the fallback.
C6_FirstMatchingRule ==
    ydlFormat # <<>> =>
        LET rule1 == dlArgs.quality = "Highest Available" \/ dlArgs.format_id = <<"best">>
            rule2 == ~rule1 /\ Supplied(dlArgs.format_id)
        IN  /\ rule1 =>
                ydlFormat[1] = "bestvideo[ext=mp4]+bestaudio[ext=m4a]/best[ext=mp4]/best"
            /\ rule2 => ydlFormat[1] = dlArgs.format_id[1]
            /\ (~rule1 /\ ~rule2) => ydlFormat[1] = "best[ext=mp4]/best"

\* "Highest Available" with another identifier supplied was resolved
C6_Witness ==
    /\ ydlFormat # <<>>
    /\ dlArgs.quality = "Highest Available"
    /\ dlArgs.format_id = <<"137">>
    /\ ydlFormat[1] = CombinedBest

(***************************************************************************)
(* Properties of the preview description.                                  *)
(***************************************************************************)
\* C8: the description returned is at most the first 200 characters of the
\* engine's description, with an ellipsis appended only if it was longer
\* than 200 characters; an absent or empty description gives "".
C8_EllipsisOnlyIfTruncated ==
    descResult # <<>> =>
        LET d == IF "description" \in DOMAIN info THEN info["description"] ELSE "" IN
            IF Len(d) > DescLimit
            THEN descResult[1] = SubSeq(d, 1, DescLimit) \o "..."
            ELSE descResult[1] = d

(***************************************************************************)
(* Properties of the request service.                                      *)
(***************************************************************************)
Posts == {r \in Requests : req[r] # <<>> /\ req[r].kind \in {"preview", "download"}}

\* request r is inside the processor: the engine was or is being called
InEngine(r) == pc[r] \in {"extracting", "engine", "downloading", "downloaded", "moved"}

\* C7: a POST /preview or POST /download that fails (url of no supported
\* shape, quality missing or empty, or the processor raising) is answered
\* 400 with the failure message as detail (for "not-a-url": the invalid
\* URL); the engine is not called when validation fails; a success with a
\* downloadUrl is sent only after the engine call and the move succeeded.
C7_FailuresAnswered400 ==
    \A r \in Posts :
        LET body == req[r].body IN
        /\ (resp[r] # <<>> /\ resp[r].status # 200) =>
               /\ resp[r].status = 400
               /\ resp[r].detail # ""
        /\ (resp[r] # <<>> /\ "url" \in DOMAIN body /\ body["url"] = "not-a-url") =>
               Contains(resp[r].detail, "Invalid YouTube URL")
        /\ InEngine(r) =>
               /\ "url" \in DOMAIN body
               /\ Contains(body["url"], "youtube.com") \/ Contains(body["url"], "youtu.be")
               /\ req[r].kind = "download" => ("quality" \in DOMAIN body /\ body["quality"] # "")
        /\ (resp[r] # <<>> /\ resp[r].download_url # "") =>
               /\ resp[r].status = 200
               /\ serving[title[r]] # <<>>

\* C9: a file in the downloads directory is always a completely written
\* download, put there by the move of a download whose engine call had
\* finished; the engine writes into the temporary directory of its request
\* only; a download that fails leaves the directory as it was; the file a
\* GET /downloads/{filename} reads is a complete file.
C9_ServingDirectoryComplete ==
    /\ \A f \in Filenames :
           serving[f] # <<>> =>
               /\ serving[f][2]
               /\ pc[serving[f][1]] \in {"moved", "done"}
               /\ pc[serving[f][1]] = "done" => resp[serving[f][1]].status = 200
    /\ \A r \in Requests :
           /\ tmp[r] = "partial" => pc[r] = "downloading"
           /\ (req[r] # <<>> /\ req[r].kind = "serve" /\ resp[r] # <<>>
                   /\ resp[r].status = 200) => resp[r].content = "complete"

\* a file is being sent while another download of the same name is being
\* written, after a first download of that name was moved in
C9_Witness ==
    \E f \in Filenames : \E r1, r2, r3 \in Requests :
        /\ serving[f] = <<r1, TRUE>>
        /\ r2 # r1
        /\ pc[r2] = "downloading" /\ title[r2] = f /\ tmp[r2] = "partial"
        /\ pc[r3] = "sending" /\ req[r3].body["filename"] = f

\* two downloads of the same name ran at once, the first moved, the second failed
C9_WitnessFailed ==
    \E f \in Filenames : \E r1, r2 \in Requests :
        /\ serving[f] = <<r1, TRUE>> /\ pc[r1] = "moved"
        /\ r2 > r1 /\ pc[r2] = "done" /\ req[r2].kind = "download"
        /\ resp[r2].status = 400
        /\ Contains(resp[r2].detail, "cross-device")

\* the next request to arrive
Arriving(r) == pc[r] = "new" /\ (IF r = 1 THEN TRUE ELSE pc[r - 1] # "new")

\* C10: while the engine call of a download runs, the accepting path is
\* free: the work is in a worker context, the event loop is not held by the
\* download, and a further request (GET /health) can be accepted by the
\* process; the download's own response is sent only after the download
\* has completed.
C10_AcceptingPathNotBlocked ==
    \A d \in Requests :
        /\ pc[d] = "downloading" =>
               /\ loop[worker[d]] # d
               /\ \A r \in Requests : Arriving(r) => ENABLED ReceiveHealth(r, worker[d])
        /\ (resp[d] # <<>> /\ resp[d].download_url # "") => tmp[d] = "none"

====
